---- MODULE Spec2Model ----
(***************************************************************************)
(* Model of the translation chain builder of dyst-no/translations.         *)
(*                                                                         *)
(* A chain is a TranslationBuilder: a String subclass wrapped in a Proxy   *)
(* whose get trap turns every property that is not on the target into a    *)
(* locale accessor.  The model keeps the receiver of the last call, the    *)
(* value the call returned (a chain, a primitive string, or a thrown       *)
(* error) and the call itself; the next call is made either on the         *)
(* receiver again (a second branch) or on the returned value (the chain    *)
(* continues).                                                             *)
(*                                                                         *)
(* JavaScript values are records tagged with their type, so that null,     *)
(* undefined, the empty string and an absent property stay distinct.       *)
(***************************************************************************)
EXTENDS Integers, Sequences, FiniteSets, TLC

VARIABLES config, recv, ret, call, detect, label, store, env, run, server, provider

\* the variables of the chain builder
chainVars == <<config, recv, ret, call>>

\* the variables of the other components, which the chain builder leaves alone
otherVars == <<detect, label, store, env, run, server, provider>>

\* the variables of the translation store
storeVars == <<store, env, run>>

vars == <<config, recv, ret, call, detect, label, store, env, run, server, provider>>

(***************************************************************************)
(* Bounds and input sets                                                   *)
(***************************************************************************)

\* number of distinct texts the caller passes
MaxTexts == 2

\* the texts, the empty string among the first ones: "" is a string, not null
TextPool == <<"hello", "", "hei", "salut", "czesc">>

Texts == {TextPool[i] : i \in 1..MaxTexts}

\* property names used as locale accessors
LocaleNames == {"en", "no", "pl"}

\* the locale lists the instance is configured with; "pl" is an accessor name
\* outside the first list
SupportedChoices == {<<"en", "no">>, <<"en", "no", "pl">>}

Range(s) == {s[i] : i \in 1..Len(s)}

(***************************************************************************)
(* JavaScript values                                                       *)
(***************************************************************************)

null == [type |-> "null"]

undefined == [type |-> "undefined"]

Str(s) == [type |-> "string", value |-> s]

Bool(b) == [type |-> "boolean", value |-> b]

\* a thrown error; the call that throws returns no value
Throw(e) == [type |-> "throw", error |-> e]

\* the slot holds no value yet
NoValue == [type |-> "none"]

\* text !== null: undefined is taken for a text
NotNullStrict(v) == v.type # "null"

\* text != null  (loose inequality: false for null and for undefined)
NotNull(v) == v.type \notin {"null", "undefined"}

\* a ?? b
Nullish(a, b) == IF a.type \in {"null", "undefined"} THEN b ELSE a

\* if (v) ...  on the values returnPrimitive takes
Truthy(v) == v.type = "boolean" /\ v.value

\* obj[k] on a plain object whose keys are locale names
GetProp(obj, k) == IF k \in DOMAIN obj THEN obj[k] ELSE undefined

\* k in obj
HasProp(obj, k) == k \in DOMAIN obj

\* { ...obj }
Spread(obj) == [k \in DOMAIN obj |-> obj[k]]

\* { [p]: v, ...obj }: an existing entry wins over the new one
SpreadWithKeep(obj, p, v) == [k \in DOMAIN obj \cup {p} |-> IF k \in DOMAIN obj THEN obj[k] ELSE v]

\* { ...obj, [p]: v }
SpreadWith(obj, p, v) == [k \in DOMAIN obj \cup {p} |-> IF k = p THEN v ELSE obj[k]]

(***************************************************************************)
(* TranslationBuilder                                                      *)
(***************************************************************************)

\* new TranslationBuilder(config, translations): the config object is shared
\* by every chain of a translation function, the translations are its own
TranslationBuilder(translations) == [type |-> "object", translations |-> translations]

\* properties that `prop in target` finds on the String subclass instance
TargetProps == {"config", "translations", "length", "constructor", "toString", "valueOf"}

Symbols == {"Symbol.toPrimitive"}

\* the get trap: an existing property or a symbol is read from the target,
\* anything else is a locale accessor
ProxyGet(prop) == IF prop \in TargetProps \/ prop \in Symbols THEN "reflect" ELSE "accessor"

\* translations[currentLocale] || translations[baseLocale]: an empty text falls back
toStringFalsy(cfg, translations) ==
  LET cur == GetProp(translations, cfg.currentLocale)
  IN IF cur.type \in {"null", "undefined"} \/ cur = Str("")
     THEN GetProp(translations, cfg.baseLocale)
     ELSE cur

\* toString(): translations[currentLocale] ?? translations[baseLocale]
toString(cfg, translations) ==
  Nullish(GetProp(translations, cfg.currentLocale), GetProp(translations, cfg.baseLocale))

\* valueOf left to String.prototype: the wrapped primitive of super(), ""
valueOfInherited(cfg, translations) == Str("")


valueOf(cfg, translations) == toString(cfg, translations)

toPrimitive(cfg, translations) == toString(cfg, translations)

\* the three conversion paths of a chain
ConversionPaths == {"toString", "valueOf", "Symbol.toPrimitive"}

Convert(path, cfg, translations) ==
  CASE path = "toString" -> toString(cfg, translations)
    [] path = "valueOf" -> valueOf(cfg, translations)
    [] path = "Symbol.toPrimitive" -> toPrimitive(cfg, translations)

\* { ...translations, [prop]: text } whatever the text is
newTranslationsUnchecked(translations, prop, text) == SpreadWith(translations, prop, text)

\* the accessor's new mapping: the old entries plus the text, unless the text
\* is null or undefined
newTranslations(translations, prop, text) ==
  IF NotNull(text) THEN SpreadWith(translations, prop, text) ELSE Spread(translations)

\* target.translations[prop] = text: the receiver is extended in place
targetTranslationsInPlace(translations, prop, text) == newTranslations(translations, prop, text)

\* the receiver's own mapping after the call: the spread copies, nothing is
\* assigned to target.translations
targetTranslations(translations, prop, text) == translations

\* every((locale) => newTranslations[locale]): an empty text counts as missing
hasAllLocalesTruthy(cfg, translations) ==
  \A i \in 1..Len(cfg.supportedLocales) :
    LET v == GetProp(translations, cfg.supportedLocales[i])
    IN v.type = "string" /\ v.value # ""


hasAllLocales(cfg, translations) ==
  \A i \in 1..Len(cfg.supportedLocales) : HasProp(translations, cfg.supportedLocales[i])

resolvedString(cfg, translations) ==
  Nullish(GetProp(translations, cfg.currentLocale), GetProp(translations, cfg.baseLocale))

\* the accessor without the returnPrimitive branch
accessorNoCollapse(cfg, translations, prop, text) ==
  TranslationBuilder(newTranslations(translations, prop, text))

\* the function the get trap returns for a locale name, applied to text
accessor(cfg, translations, prop, text) ==
  LET nt == newTranslations(translations, prop, text)
  IN IF Truthy(cfg.returnPrimitive) /\ hasAllLocales(cfg, nt)
     THEN resolvedString(cfg, nt)
     ELSE TranslationBuilder(nt)

\* value.prop(text) on a primitive string: the locale names are not
\* properties of String.prototype, so the call is a call of undefined
primitiveCall(prop, text) == Throw("TypeError")

\* createTranslationFunction(...)(baseText)
createTranslationFunction(cfg, baseText) ==
  TranslationBuilder([k \in {cfg.baseLocale} |-> baseText])

(***************************************************************************)
(* The caller's view: slots with the history of the value they hold         *)
(***************************************************************************)

\* what was attached on the way to a value: the seed text and, per locale,
\* the last non-null text passed to its accessor
NoHistory == [seed |-> "", attached |-> <<>>]

Slot(v, origin, hist) == [val |-> v, origin |-> origin, hist |-> hist]

EmptySlot == Slot(NoValue, "none", NoHistory)

Attach(hist, prop, text) ==
  IF text.type = "string"
  THEN [hist EXCEPT !.attached =
          [k \in DOMAIN hist.attached \cup {prop} |-> IF k = prop THEN text.value ELSE hist.attached[k]]]
  ELSE hist

TextArgs == {Str(t) : t \in Texts} \cup {null, undefined}

\* no call of detectLocale is being looked at
NoDetect == [pc |-> "none"]

\* no label is being looked at
NoLabel == [pc |-> "none"]

\* no store exists
NoStore == [pc |-> "none"]

StoreAtRest ==
  /\ store = NoStore
  /\ env = NoStore
  /\ run = NoStore

\* no server instance exists
NoServer == [pc |-> "none"]

\* no TranslationProvider is mounted
NoProvider == [pc |-> "none"]

ServerAtRest ==
  /\ server = NoServer
  /\ provider = NoProvider

\* the configurations of a translation function: returnPrimitive is either
\* passed as true or omitted
Configs ==
  {[supportedLocales |-> s, baseLocale |-> b, currentLocale |-> c, returnPrimitive |-> p] :
     s \in SupportedChoices, b \in {"en"}, c \in LocaleNames,
     p \in {Bool(TRUE), undefined}}

Init ==
  /\ config \in Configs
  /\ recv = EmptySlot
  /\ ret = EmptySlot
  /\ call = [op |-> "init"]
  /\ detect = NoDetect
  /\ label = NoLabel
  /\ StoreAtRest
  /\ ServerAtRest

\* t(baseText)
CreateChain(baseText) ==
  /\ recv' = EmptySlot
  /\ ret' = Slot(createTranslationFunction(config, Str(baseText)), "seed",
                 [seed |-> baseText, attached |-> <<>>])
  /\ call' = [op |-> "createChain", text |-> Str(baseText)]
  /\ UNCHANGED config
  /\ UNCHANGED otherVars

\* the slot a call is made on
From(from) == IF from = "recv" THEN recv ELSE ret

\* value.prop(text) on a chain
CallAccessor(from, prop, text) ==
  LET r == From(from)
  IN /\ r.val.type = "object"
     /\ ProxyGet(prop) = "accessor"
     /\ recv' = Slot(TranslationBuilder(targetTranslations(r.val.translations, prop, text)),
                     r.origin, r.hist)
     /\ ret' = Slot(accessor(config, r.val.translations, prop, text), "accessor",
                    Attach(r.hist, prop, text))
     /\ call' = [op |-> "accessor", from |-> from, prop |-> prop, text |-> text]
     /\ UNCHANGED config
     /\ UNCHANGED otherVars

\* value.prop(text) on a primitive string
CallOnPrimitive(from, prop, text) ==
  LET r == From(from)
  IN /\ r.val.type = "string"
     /\ recv' = r
     /\ ret' = Slot(primitiveCall(prop, text), "throw", r.hist)
     /\ call' = [op |-> "accessor", from |-> from, prop |-> prop, text |-> text]
     /\ UNCHANGED config
     /\ UNCHANGED otherVars

\* String(chain), chain.valueOf(), `${chain}`, chain + '' ...
Stringify(from, path) ==
  LET r == From(from)
  IN /\ r.val.type = "object"
     /\ ProxyGet(path) = "reflect"
     /\ recv' = r
     /\ ret' = Slot(Convert(path, config, r.val.translations), "convert", r.hist)
     /\ call' = [op |-> "convert", from |-> from, path |-> path]
     /\ UNCHANGED config
     /\ UNCHANGED otherVars

Next ==
  \/ \E b \in Texts : CreateChain(b)
  \/ \E from \in {"recv", "ret"}, prop \in LocaleNames, text \in TextArgs :
       CallAccessor(from, prop, text)
  \/ \E from \in {"recv", "ret"}, prop \in LocaleNames, text \in TextArgs :
       CallOnPrimitive(from, prop, text)
  \/ \E from \in {"recv", "ret"}, path \in ConversionPaths : Stringify(from, path)

Spec == Init /\ [][Next]_vars

TypeOK ==
  /\ config \in Configs
  /\ recv.val.type \in {"none", "object", "string"}
  /\ ret.val.type \in {"none", "object", "string", "throw"}

(***************************************************************************)
(* detectLocale                                                            *)
(***************************************************************************)

\* number of detectors in the list
MaxDetectors == 3

\* what a detector returns: null, or a locale that may or may not be supported
DetectorValues == {null} \cup {Str(l) : l \in LocaleNames}

\* the detector lists: a detector is modelled by the value it returns
DetectorLists == UNION {[1..n -> DetectorValues] : n \in 0..MaxDetectors}

\* supportedLocales.includes(v)
Includes(supportedLocales, v) == \E i \in 1..Len(supportedLocales) : Str(supportedLocales[i]) = v

\* if (detectedLocale && ...): null, undefined and "" are falsy
TruthyString(v) == v.type = "string" /\ v.value # ""

\* the loop goes on after a match: the last supported value wins
RECURSIVE detectFromLast(_, _, _, _)
detectFromLast(supportedLocales, fallbackLocale, detectors, i) ==
  IF i > Len(detectors)
  THEN [locale |-> fallbackLocale, invoked |-> Len(detectors)]
  ELSE LET rest == detectFromLast(supportedLocales, fallbackLocale, detectors, i + 1)
       IN IF rest.locale = fallbackLocale
             /\ TruthyString(detectors[i]) /\ Includes(supportedLocales, detectors[i])
          THEN [locale |-> detectors[i].value, invoked |-> Len(detectors)]
          ELSE rest

\* the loop from detector i on: the locale returned and the number of
\* detectors invoked up to the return
RECURSIVE detectFrom(_, _, _, _)
detectFrom(supportedLocales, fallbackLocale, detectors, i) ==
  IF i > Len(detectors)
  THEN [locale |-> fallbackLocale, invoked |-> Len(detectors)]
  ELSE IF TruthyString(detectors[i]) /\ Includes(supportedLocales, detectors[i])
       THEN [locale |-> detectors[i].value, invoked |-> i]
       ELSE detectFrom(supportedLocales, fallbackLocale, detectors, i + 1)

\* if (detectedLocale): the membership test is left out
detectLocaleAny(supportedLocales, fallbackLocale, detectors) ==
  LET hits == {i \in 1..Len(detectors) : TruthyString(detectors[i])}
  IN IF hits = {}
     THEN [locale |-> fallbackLocale, invoked |-> Len(detectors)]
     ELSE LET i == CHOOSE h \in hits : \A g \in hits : h <= g
          IN [locale |-> detectors[i].value, invoked |-> i]

detectLocale(supportedLocales, fallbackLocale, detectors) ==
  detectFrom(supportedLocales, fallbackLocale, detectors, 1)

\* the chain builder at rest, for the specifications of the other components
ChainAtRest ==
  /\ config = [supportedLocales |-> <<"en", "no">>, baseLocale |-> "en",
               currentLocale |-> "en", returnPrimitive |-> undefined]
  /\ recv = EmptySlot
  /\ ret = EmptySlot
  /\ call = [op |-> "init"]

InitDetect ==
  /\ detect \in {[pc |-> "call", supportedLocales |-> s, fallbackLocale |-> "en", detectors |-> d] :
                   s \in SupportedChoices, d \in DetectorLists}
  /\ ChainAtRest
  /\ label = NoLabel
  /\ StoreAtRest
  /\ ServerAtRest

\* detectLocale(supportedLocales, fallbackLocale, detectors) runs and returns
DetectLocale ==
  /\ detect.pc = "call"
  /\ LET r == detectLocale(detect.supportedLocales, detect.fallbackLocale, detect.detectors)
     IN detect' = [pc |-> "returned", supportedLocales |-> detect.supportedLocales,
                   fallbackLocale |-> detect.fallbackLocale, detectors |-> detect.detectors,
                   result |-> r.locale, invoked |-> r.invoked]
  /\ UNCHANGED <<chainVars, server, provider, label, storeVars>>

NextDetect == DetectLocale

SpecDetect == InitDetect /\ [][NextDetect]_vars

(***************************************************************************)
(* createLabel                                                             *)
(***************************************************************************)

Num(n) == [type |-> "number", value |-> n]

\* value.toString() without the conversion: the value itself
StringIdentity(v) == v

\* String(value) on a string or a number
StringOf(v) == IF v.type = "number" THEN Str(ToString(v.value)) ELSE v

\* an enum object is the sequence of its own enumerable properties in the
\* order for..in visits them (integer keys first, then insertion order);
\* declared are the keys of its type, the ones a translation is required for.
\* A string enum whose values equal its key names:
StatusEnum ==
  [props |-> <<[key |-> "Active", value |-> Str("Active")],
               [key |-> "Inactive", value |-> Str("Inactive")]>>,
   declared |-> {"Active", "Inactive"}]

\* a string enum whose values differ from its key names
UserRoleEnum ==
  [props |-> <<[key |-> "Admin", value |-> Str("admin")],
               [key |-> "User", value |-> Str("user")]>>,
   declared |-> {"Admin", "User"}]

\* a numeric enum, compiled with its reverse mapping: the value of key "0" is
\* the name of key Low
PriorityEnum ==
  [props |-> <<[key |-> "0", value |-> Str("Low")],
               [key |-> "1", value |-> Str("High")],
               [key |-> "Low", value |-> Num(0)],
               [key |-> "High", value |-> Num(1)]>>,
   declared |-> {"Low", "High"}]

Enums == {StatusEnum, UserRoleEnum, PriorityEnum}

\* the texts of the label chains, per key: t(en).no(no)
LabelTexts ==
  [Active |-> [en |-> "Active", no |-> "Aktiv"],
   Inactive |-> [en |-> "Inactive", no |-> "Inaktiv"],
   Admin |-> [en |-> "Administrator", no |-> "Administrator"],
   User |-> [en |-> "User", no |-> "Bruker"],
   Low |-> [en |-> "Low Priority", no |-> "Lav prioritet"],
   High |-> [en |-> "High Priority", no |-> "Hoy prioritet"]]

\* the configuration of the translation function the label chains come from
LabelConfig(currentLocale) ==
  [supportedLocales |-> <<"en", "no">>, baseLocale |-> "en",
   currentLocale |-> currentLocale, returnPrimitive |-> undefined]

\* t(en).no(no) for key k
LabelChain(cfg, k) ==
  accessor(cfg, createTranslationFunction(cfg, Str(LabelTexts[k].en)).translations,
           "no", Str(LabelTexts[k].no))

\* the translations argument with an entry for each key in keys
LabelTranslations(cfg, keys) == [k \in keys |-> LabelChain(cfg, k)]

\* the translations arguments for an enum: complete, or with one key left out
TranslationArgs(cfg, enum) ==
  {LabelTranslations(cfg, enum.declared \ omit) :
     omit \in {{}} \cup {{k} : k \in enum.declared}}

\* what lookup is called with: a key name, an underlying value, or neither
LookupInputs(enum) ==
  {Str(enum.props[i].key) : i \in 1..Len(enum.props)}
    \cup {enum.props[i].value : i \in 1..Len(enum.props)}
    \cup {Str("Other"), Num(7)}

\* the scan of lookup from property i on
RECURSIVE lookupFrom(_, _, _, _)
lookupFrom(enumObj, translations, value, i) ==
  IF i > Len(enumObj)
  THEN StringOf(value)
  ELSE IF enumObj[i].value = value \/ Str(enumObj[i].key) = value
       THEN GetProp(translations, enumObj[i].key)
       ELSE lookupFrom(enumObj, translations, value, i + 1)

\* the function createLabel returns, applied to value
lookup(enumObj, translations, value) == lookupFrom(enumObj, translations, value, 1)

\* createLabel(enumObj, translations): returns the lookup function; the
\* arguments are not inspected
createLabel(enumObj, translations) == "function"

InitLabel ==
  /\ \E enum \in Enums, c \in {"en", "no"} :
       \E tr \in TranslationArgs(LabelConfig(c), enum) :
         label = [pc |-> "args", enum |-> enum, cfg |-> LabelConfig(c), translations |-> tr]
  /\ ChainAtRest
  /\ detect = NoDetect
  /\ StoreAtRest
  /\ ServerAtRest

\* const label = createLabel(enumObj, translations)
CreateLabel ==
  /\ label.pc = "args"
  /\ label' = [pc |-> "created", enum |-> label.enum, cfg |-> label.cfg,
               translations |-> label.translations,
               created |-> createLabel(label.enum.props, label.translations)]
  /\ UNCHANGED <<chainVars, server, provider, detect, storeVars>>

\* label(value)
Lookup(value) ==
  /\ label.pc \in {"created", "looked"}
  /\ label.created = "function"
  /\ label' = [pc |-> "looked", enum |-> label.enum, cfg |-> label.cfg,
               translations |-> label.translations, created |-> label.created,
               value |-> value,
               result |-> lookup(label.enum.props, label.translations, value)]
  /\ UNCHANGED <<chainVars, server, provider, detect, storeVars>>

NextLabel ==
  \/ CreateLabel
  \/ \E value \in LookupInputs(label.enum) : Lookup(value)

SpecLabel == InitLabel /\ [][NextLabel]_vars

(***************************************************************************)
(* initializeTranslations (react): the translation store                   *)
(***************************************************************************)

\* number of explicit changeLocale calls on one store
MaxChanges == 2

\* number of stores initialized one after the other over the same storage
MaxStores == 2

\* detectors.localStorage, as opposed to a detector that returns a fixed value
LocalStorageDetector == [type |-> "detector", name |-> "localStorage"]

\* a detector that throws when it is invoked
ThrowingDetector == [type |-> "detector", name |-> "throws"]

\* the detector lists a store with well-behaved collaborators is initialized
\* with
StoreDetectorLists ==
  {<<>>, <<LocalStorageDetector>>, <<Str("no")>>,
   <<LocalStorageDetector, Str("pl")>>, <<Str("pl"), LocalStorageDetector>>}

\* which of the optional collaborators are passed; subscriber says what
\* onLocaleChange does when it is called, setItemThrows whether
\* storage.setItem may throw
OptionalChoices ==
  {[storage |-> TRUE, onLocaleChange |-> TRUE, labels |-> TRUE, returnPrimitive |-> undefined,
    subscriber |-> "returns", setItemThrows |-> FALSE],
   [storage |-> TRUE, onLocaleChange |-> TRUE, labels |-> TRUE, returnPrimitive |-> Bool(TRUE),
    subscriber |-> "returns", setItemThrows |-> FALSE],
   [storage |-> FALSE, onLocaleChange |-> TRUE, labels |-> TRUE, returnPrimitive |-> undefined,
    subscriber |-> "returns", setItemThrows |-> FALSE],
   [storage |-> TRUE, onLocaleChange |-> FALSE, labels |-> FALSE, returnPrimitive |-> undefined,
    subscriber |-> "returns", setItemThrows |-> FALSE]}

\* collaborators that misbehave: a subscriber that may throw, a subscriber
\* that may call changeLocale, a storage adapter whose setItem may throw
FaultyChoices ==
  {[storage |-> TRUE, onLocaleChange |-> TRUE, labels |-> TRUE, returnPrimitive |-> undefined,
    subscriber |-> "throws", setItemThrows |-> FALSE],
   [storage |-> TRUE, onLocaleChange |-> TRUE, labels |-> TRUE, returnPrimitive |-> undefined,
    subscriber |-> "reenters", setItemThrows |-> FALSE],
   [storage |-> TRUE, onLocaleChange |-> TRUE, labels |-> FALSE, returnPrimitive |-> undefined,
    subscriber |-> "returns", setItemThrows |-> TRUE]}

\* initializeTranslations(supportedLocales, baseLocale, options)
Options(s, d, o) ==
  [supportedLocales |-> s, baseLocale |-> "en", detectors |-> d, storage |-> o.storage,
   onLocaleChange |-> o.onLocaleChange, labels |-> o.labels,
   returnPrimitive |-> o.returnPrimitive,
   subscriber |-> o.subscriber, setItemThrows |-> o.setItemThrows]

\* the calls of initializeTranslations looked at
StoreOptions ==
  {Options(s, d, o) : s \in SupportedChoices, d \in StoreDetectorLists, o \in OptionalChoices}
    \cup {Options(<<"en", "no">>, <<LocalStorageDetector>>, o) : o \in FaultyChoices}
    \cup {Options(<<"en", "no">>, <<LocalStorageDetector, ThrowingDetector>>, o) :
            o \in {o \in OptionalChoices : o.storage /\ o.labels /\ o.returnPrimitive = undefined}}

\* window.localStorage before any store exists: the key "locale" may be set,
\* another key belongs to the application
InitialItems ==
  {[locale |-> v, theme |-> Str("dark")] : v \in {null, Str("no"), Str("pl")}}

\* the calls of initializeTranslations looked at once a store has been there
\* before: over the storage the earlier store left behind, with the storage
\* detector in the list
LaterStoreOptions ==
  {Options(s, d, o) :
     s \in SupportedChoices,
     d \in {<<LocalStorageDetector>>, <<LocalStorageDetector, Str("pl")>>,
            <<Str("pl"), LocalStorageDetector>>},
     o \in {o \in OptionalChoices : o.storage /\ o.labels /\ o.returnPrimitive = undefined}}

\* the options of the n-th call of initializeTranslations, counted from 0
OptionsFor(n) == IF n = 0 THEN StoreOptions ELSE LaterStoreOptions

\* outside a browser there is no window.localStorage
NoItems == [locale |-> null, theme |-> null]

\* window.localStorage.getItem('theme'): the detector reads another key
localStorageDetectorOtherKey(isBrowser, items) == IF ~isBrowser THEN null ELSE items.theme

\* detectors.localStorage: null outside a browser, else
\* window.localStorage.getItem('locale')
localStorageDetector(isBrowser, items) == IF ~isBrowser THEN null ELSE items.locale

\* the values the detectors of a list return when invoked
DetectorResults(detectors, isBrowser, items) ==
  [i \in 1..Len(detectors) |->
     IF detectors[i] = LocalStorageDetector
     THEN localStorageDetector(isBrowser, items)
     ELSE detectors[i]]

\* storage.getItem(key): null outside a browser
getItem(isBrowser, items, key) == IF isBrowser THEN items[key] ELSE null

\* setItem that stores under another key
setItemOtherKey(isBrowser, items, key, value) ==
  IF isBrowser THEN [items EXCEPT !.theme = Str(value)] ELSE items

\* storage.setItem(key, value): window.localStorage.setItem in a browser,
\* nothing outside one
setItem(isBrowser, items, key, value) ==
  IF isBrowser THEN [items EXCEPT ![key] = Str(value)] ELSE items

\* the translation function is bound to the base locale
createTFunctionBase(opts, localeHolder) ==
  [supportedLocales |-> opts.supportedLocales, baseLocale |-> opts.baseLocale,
   currentLocale |-> opts.baseLocale, returnPrimitive |-> opts.returnPrimitive]

\* createTFunction(): the configuration the new translation function closes
\* over, with the locale localeHolder holds at the time of the call
createTFunction(opts, localeHolder) ==
  [supportedLocales |-> opts.supportedLocales, baseLocale |-> opts.baseLocale,
   currentLocale |-> localeHolder, returnPrimitive |-> opts.returnPrimitive]

\* options.labels(t): the label factory of the tests, one label for Status
labelFactory(cfg) == [status |-> LabelTranslations(cfg, StatusEnum.declared)]

\* createLabels(): {} without a factory, else the factory's labels over a
\* fresh translation function; made tells the two apart, cfg is the
\* configuration of that function
createLabels(opts, localeHolder) ==
  IF ~opts.labels
  THEN [made |-> FALSE]
  ELSE [made |-> TRUE, cfg |-> createTFunction(opts, localeHolder),
        labels |-> labelFactory(createTFunction(opts, localeHolder))]

\* the callback runs before the labels are regenerated
NextPcCallbackEarly(pc) ==
  CASE pc = "setLocale" -> "createT"
    [] pc = "createT" -> "callback"
    [] pc = "callback" -> "createLabels"
    [] pc = "createLabels" -> "setItem"
    [] pc = "setItem" -> "idle"

\* the order of the statements of changeLocale
NextPc(pc) ==
  CASE pc = "setLocale" -> "createT"
    [] pc = "createT" -> "createLabels"
    [] pc = "createLabels" -> "callback"
    [] pc = "callback" -> "setItem"
    [] pc = "setItem" -> "idle"

\* construction returns without calling changeLocale
AfterConstructionIdle == "idle"

\* where construction goes on after the store object is built: the implicit
\* translationStore.changeLocale(translationStore.locale)
AfterConstruction == "setLocale"

\* how deep onLocaleChange may call changeLocale again
MaxDepth == 1

\* what the collaborators throw
DetectorError == Throw("DetectorError")

SubscriberError == Throw("SubscriberError")

StorageError == Throw("QuotaExceededError")

\* the exception reaches the caller wrapped in an error of the store
propagateWrapped(e) == Throw("TranslationError")

\* an exception raised inside initializeTranslations or changeLocale: there is
\* no try/catch around the collaborator calls, the caller gets it as raised
propagate(e) == e

\* the position of the first detector that throws, 0 if none does
FirstThrowing(detectors) ==
  IF \E i \in 1..Len(detectors) : detectors[i] = ThrowingDetector
  THEN CHOOSE i \in 1..Len(detectors) :
         /\ detectors[i] = ThrowingDetector
         /\ \A j \in 1..(i - 1) : detectors[j] # ThrowingDetector
  ELSE 0

\* the detectors before position i
Before(detectors, i) == SubSeq(detectors, 1, i - 1)

\* detectLocale throws: a detector that throws is reached before any
\* detector returns a supported locale
DetectThrows(opts, isBrowser, items) ==
  LET i == FirstThrowing(opts.detectors)
      before == DetectorResults(Before(opts.detectors, i), isBrowser, items)
  IN /\ i > 0
     /\ ~\E j \in 1..Len(before) :
          TruthyString(before[j]) /\ Includes(opts.supportedLocales, before[j])

\* createLabels() calls the factory again only when there are no labels yet
factoryCallsCached(opts, labels) == IF opts.labels /\ ~labels.made THEN 1 ELSE 0

\* the calls of options.labels one createLabels() makes
factoryCalls(opts, labels) == IF opts.labels THEN 1 ELSE 0

\* the adapter is asked for the stored value before it is written
storageCallsReadFirst(newLocale) ==
  <<[op |-> "getItem", key |-> "locale"],
    [op |-> "setItem", key |-> "locale", value |-> newLocale]>>

\* the calls changeLocale makes on options.storage
storageCalls(newLocale) == <<[op |-> "setItem", key |-> "locale", value |-> newLocale]>>

\* window.localStorage after the adapter calls from call i on
RECURSIVE ApplyCalls(_, _, _, _)
ApplyCalls(isBrowser, items, calls, i) ==
  IF i > Len(calls)
  THEN items
  ELSE ApplyCalls(isBrowser,
                  IF calls[i].op = "setItem"
                  THEN setItem(isBrowser, items, calls[i].key, calls[i].value)
                  ELSE items,
                  calls, i + 1)

\* the adapter methods and keys a sequence of calls uses
CallKinds(calls) == {[op |-> calls[i].op, key |-> calls[i].key] : i \in 1..Len(calls)}

\* the locale changeLocale stores is what the detectors say now, if anything
nextLocaleDetected(opts, isBrowser, items, newLocale) ==
  LET found == detectLocale(opts.supportedLocales, newLocale,
                            DetectorResults(opts.detectors, isBrowser, items))
  IN IF DetectThrows(opts, isBrowser, items) THEN newLocale ELSE found.locale

\* translationStore.locale = newLocale: the argument, whatever the detectors
\* would return
nextLocale(opts, isBrowser, items, newLocale) == newLocale

\* the outer call goes on with the inner call's locale
resumedLocaleInner(stack, innerLocale) == innerLocale

\* newLocale is a parameter: after the inner call returns, the outer call
\* still has its own argument
resumedLocale(stack, innerLocale) == Head(stack)

\* the store of the previous initialization, as the next one finds it: the
\* argument of the last changeLocale call that returned
Previous ==
  IF store = NoStore \/ run.pc # "idle"
  THEN [exists |-> FALSE]
  ELSE [exists |-> TRUE, storage |-> store.opts.storage, locale |-> run.lastCompleted]

InitStore ==
  /\ store = NoStore
  /\ run = NoStore
  /\ env \in {[isBrowser |-> TRUE, items |-> i, stores |-> 0] : i \in InitialItems}
               \cup {[isBrowser |-> FALSE, items |-> NoItems, stores |-> 0]}
  /\ ChainAtRest
  /\ detect = NoDetect
  /\ label = NoLabel
  /\ ServerAtRest

\* no store exists or the last call on it is over, and another store may be
\* initialized
MayInitialize ==
  /\ store = NoStore \/ run.pc \in {"idle", "failed"}
  /\ env.stores < MaxStores

\* initializeTranslations(...) up to the implicit changeLocale call
Initialize(opts) ==
  /\ MayInitialize
  /\ ~DetectThrows(opts, env.isBrowser, env.items)
  /\ LET found == detectLocale(opts.supportedLocales, opts.baseLocale,
                               DetectorResults(Before(opts.detectors,
                                                      IF FirstThrowing(opts.detectors) = 0
                                                      THEN Len(opts.detectors) + 1
                                                      ELSE FirstThrowing(opts.detectors)),
                                               env.isBrowser, env.items))
         initialLocale == found.locale
     IN /\ store' = [opts |-> opts,
                     localeHolder |-> initialLocale,
                     locale |-> initialLocale,
                     t |-> [cfg |-> createTFunction(opts, initialLocale), id |-> 1],
                     labels |-> createLabels(opts, initialLocale)]
        /\ run' = [pc |-> AfterConstruction, newLocale |-> initialLocale, implicit |-> TRUE,
                   stack |-> <<>>, inner |-> "", outer |-> "", reentries |-> 0,
                   changes |-> 0, callbacks |-> 0, setItems |-> 0,
                   labelCalls |-> factoryCalls(opts, [made |-> FALSE]),
                   detectorCalls |-> found.invoked,
                   adapterCalls |-> {}, lastWritten |-> "",
                   itemsAtStart |-> env.items, itemsAtCall |-> env.items, setItemsAtCall |-> 0,
                   raised |-> NoValue, raisedBy |-> "", outcome |-> NoValue,
                   threw |-> FALSE, reentered |-> FALSE, lastCompleted |-> "",
                   held |-> NoValue, heldLocale |-> "",
                   tAtCall |-> 1, observed |-> [seen |-> FALSE],
                   initialLocale |-> initialLocale, previous |-> Previous]
  /\ env' = [env EXCEPT !.stores = @ + 1]
  /\ UNCHANGED <<chainVars, server, provider, detect, label>>

\* initializeTranslations(...) when a detector throws: no store is built
InitializeThrows(opts) ==
  /\ MayInitialize
  /\ DetectThrows(opts, env.isBrowser, env.items)
  /\ store' = NoStore
  /\ run' = [pc |-> "failed", opts |-> opts, implicit |-> TRUE,
             detectorCalls |-> FirstThrowing(opts.detectors),
             callbacks |-> 0, setItems |-> 0, changes |-> 0,
             raised |-> DetectorError, raisedBy |-> "detector",
             outcome |-> propagate(DetectorError)]
  /\ env' = [env EXCEPT !.stores = @ + 1]
  /\ UNCHANGED <<chainVars, server, provider, detect, label>>

\* a call of translationStore.changeLocale(newLocale) begins
Begin(newLocale) ==
  /\ store # NoStore
  /\ run.pc = "idle"
  /\ run.changes < MaxChanges
  /\ run' = [run EXCEPT !.pc = "setLocale", !.newLocale = newLocale, !.implicit = FALSE,
                        !.changes = @ + 1, !.tAtCall = store.t.id, !.inner = "", !.outer = "", !.reentries = 0,
                        !.itemsAtCall = env.items, !.setItemsAtCall = run.setItems,
                        !.raised = NoValue, !.raisedBy = "", !.outcome = NoValue]

\* translationStore.changeLocale(newLocale) called on the store itself
ChangeLocale(newLocale) ==
  /\ Begin(newLocale)
  /\ UNCHANGED <<store, env, chainVars, server, provider, detect, label>>

\* translationStore.locale = newLocale; localeHolder.current = newLocale
SetLocale ==
  /\ store # NoStore
  /\ run.pc = "setLocale"
  /\ LET l == nextLocale(store.opts, env.isBrowser, env.items, run.newLocale)
     IN store' = [store EXCEPT !.locale = l, !.localeHolder = l]
  /\ run' = [run EXCEPT !.pc = NextPc("setLocale")]
  /\ UNCHANGED <<env, chainVars, server, provider, detect, label>>

\* translationStore.t = createTFunction()
CreateT ==
  /\ store # NoStore
  /\ run.pc = "createT"
  /\ store' = [store EXCEPT !.t = [cfg |-> createTFunction(store.opts, store.localeHolder),
                                   id |-> store.t.id + 1]]
  /\ run' = [run EXCEPT !.pc = NextPc("createT")]
  /\ UNCHANGED <<env, chainVars, server, provider, detect, label>>

\* translationStore.labels = createLabels()
CreateLabels ==
  /\ store # NoStore
  /\ run.pc = "createLabels"
  /\ store' = [store EXCEPT !.labels = createLabels(store.opts, store.localeHolder)]
  /\ run' = [run EXCEPT !.pc = NextPc("createLabels"),
                        !.labelCalls = @ + factoryCalls(store.opts, store.labels)]
  /\ UNCHANGED <<env, chainVars, server, provider, detect, label>>

\* what the subscriber sees when it is called
Observed ==
  [seen |-> TRUE, locale |-> run.newLocale, t |-> store.t,
   storeLocale |-> store.locale, storeT |-> store.t,
   storeLabels |-> store.labels, tAtCall |-> run.tAtCall]

\* options.onLocaleChange?.(newLocale, translationStore.t): no subscriber, or
\* the subscriber looks at its arguments and at the store and returns
Callback ==
  /\ store # NoStore
  /\ run.pc = "callback"
  /\ run' = IF store.opts.onLocaleChange
            THEN [run EXCEPT !.pc = NextPc("callback"),
                             !.callbacks = @ + 1,
                             !.observed = Observed]
            ELSE [run EXCEPT !.pc = NextPc("callback")]
  /\ UNCHANGED <<store, env, chainVars, server, provider, detect, label>>

\* the subscriber throws
CallbackThrows ==
  /\ store # NoStore
  /\ run.pc = "callback"
  /\ store.opts.onLocaleChange
  /\ store.opts.subscriber = "throws"
  /\ run' = [run EXCEPT !.pc = "raised",
                        !.callbacks = @ + 1,
                        !.observed = Observed,
                        !.raised = SubscriberError, !.raisedBy = "onLocaleChange"]
  /\ UNCHANGED <<store, env, chainVars, server, provider, detect, label>>

\* the subscriber calls translationStore.changeLocale(newLocale) itself, with
\* another locale than the one it was called for; during construction it has
\* no store to call
CallbackReenters(newLocale) ==
  /\ store # NoStore
  /\ run.pc = "callback"
  /\ store.opts.onLocaleChange
  /\ store.opts.subscriber = "reenters"
  /\ ~run.implicit
  /\ Len(run.stack) < MaxDepth
  /\ newLocale # run.newLocale
  /\ run' = [run EXCEPT !.pc = "setLocale",
                        !.callbacks = @ + 1,
                        !.observed = Observed,
                        !.stack = <<run.newLocale>> \o @,
                        !.newLocale = newLocale,
                        !.inner = newLocale,
                        !.outer = IF run.stack = <<>> THEN run.newLocale ELSE @,
                        !.reentries = @ + 1,
                        !.changes = @ + 1,
                        !.tAtCall = store.t.id,
                        !.reentered = TRUE]
  /\ UNCHANGED <<store, env, chainVars, server, provider, detect, label>>

\* if (options?.storage?.setItem) options.storage.setItem('locale', newLocale)
\* and the return: to the caller, or into the subscriber of the outer call,
\* which returns in turn
SetItem ==
  /\ store # NoStore
  /\ run.pc = "setItem"
  /\ env' = IF store.opts.storage
            THEN [env EXCEPT !.items = ApplyCalls(env.isBrowser, env.items,
                                                   storageCalls(run.newLocale), 1)]
            ELSE env
  /\ run' = [run EXCEPT !.pc = IF run.stack = <<>> THEN NextPc("setItem") ELSE NextPc("callback"),
                        !.newLocale = IF run.stack = <<>> THEN @ ELSE resumedLocale(run.stack, @),
                        !.stack = IF run.stack = <<>> THEN @ ELSE Tail(@),
                        !.setItems = IF store.opts.storage THEN @ + 1 ELSE @,
                        !.adapterCalls = IF store.opts.storage
                                         THEN @ \cup CallKinds(storageCalls(run.newLocale))
                                         ELSE @,
                        !.lastWritten = IF store.opts.storage THEN run.newLocale ELSE @,
                        !.outcome = IF run.stack = <<>> THEN undefined ELSE @,
                        !.lastCompleted = run.newLocale]
  /\ UNCHANGED <<store, chainVars, server, provider, detect, label>>

\* options.storage.setItem throws: nothing is stored
SetItemThrows ==
  /\ store # NoStore
  /\ run.pc = "setItem"
  /\ store.opts.storage
  /\ store.opts.setItemThrows
  /\ run' = [run EXCEPT !.pc = "raised",
                        !.setItems = @ + 1,
                        !.adapterCalls = @ \cup CallKinds(storageCalls(run.newLocale)),
                        !.raised = StorageError, !.raisedBy = "setItem"]
  /\ UNCHANGED <<store, env, chainVars, server, provider, detect, label>>

\* the exception leaves changeLocale, and the subscriber of an outer call
\* and that call with it; an exception during construction leaves
\* initializeTranslations, which returns no instance
Unwind ==
  /\ store # NoStore
  /\ run.pc = "raised"
  /\ run' = [run EXCEPT !.pc = IF run.implicit THEN "failed" ELSE "idle",
                        !.stack = <<>>,
                        !.outcome = propagate(run.raised),
                        !.threw = TRUE]
  /\ UNCHANGED <<store, env, chainVars, server, provider, detect, label>>

\* const greeting = translationStore.t('hello').no('hei'), kept by the caller
MakeChain ==
  /\ store # NoStore
  /\ run.pc = "idle"
  /\ run.held = NoValue
  /\ run' = [run EXCEPT !.held = store.t, !.heldLocale = store.locale]
  /\ UNCHANGED <<store, env, chainVars, server, provider, detect, label>>

NextStore ==
  \/ \E opts \in OptionsFor(env.stores) : Initialize(opts)
  \/ \E opts \in OptionsFor(env.stores) : InitializeThrows(opts)
  \/ \E newLocale \in LocaleNames : ChangeLocale(newLocale)
  \/ SetLocale
  \/ CreateT
  \/ CreateLabels
  \/ Callback
  \/ CallbackThrows
  \/ \E newLocale \in LocaleNames : CallbackReenters(newLocale)
  \/ SetItem
  \/ SetItemThrows
  \/ Unwind
  \/ MakeChain

SpecStore == InitStore /\ [][NextStore]_vars

(***************************************************************************)
(* initializeTranslations (server): the instance without a current locale  *)
(***************************************************************************)

\* number of createTranslation calls on one instance
MaxFunctions == 2

\* initializeTranslations(locales, baseLocale, options) of the server entry
ServerOptions ==
  {[locales |-> s, baseLocale |-> "en", labels |-> l] : s \in SupportedChoices, l \in BOOLEAN}

\* every translation function is bound to the base locale
createTranslationBase(opts, locale) ==
  [supportedLocales |-> opts.locales, baseLocale |-> opts.baseLocale,
   currentLocale |-> opts.baseLocale, returnPrimitive |-> undefined]

\* createTranslation(locale): the configuration of the builders the returned
\* function makes; the configuration has no returnPrimitive
createTranslation(opts, locale) ==
  [supportedLocales |-> opts.locales, baseLocale |-> opts.baseLocale,
   currentLocale |-> locale, returnPrimitive |-> undefined]

\* createLabels() of the server entry: {} without a factory, else the
\* factory's labels over createTranslation(baseLocale)
serverCreateLabels(opts) ==
  IF ~opts.labels
  THEN [made |-> FALSE]
  ELSE [made |-> TRUE, cfg |-> createTranslation(opts, opts.baseLocale),
        labels |-> labelFactory(createTranslation(opts, opts.baseLocale))]

\* t('hello').no('hei') made with a function of the given configuration,
\* stringified
serverRender(cfg) ==
  LET chain == accessor(cfg, createTranslationFunction(cfg, Str("hello")).translations,
                        "no", Str("hei"))
  IN IF chain.type = "object" THEN toString(cfg, chain.translations) ELSE chain

InitServer ==
  /\ server = NoServer
  /\ provider = NoProvider
  /\ ChainAtRest
  /\ detect = NoDetect
  /\ label = NoLabel
  /\ StoreAtRest

\* const chain = initializeTranslations(locales, baseLocale, options)
InitializeServer(opts) ==
  /\ server = NoServer
  /\ server' = [pc |-> "ready", opts |-> opts, fns |-> <<>>,
                labels |-> serverCreateLabels(opts),
                last |-> [op |-> "none"]]
  /\ UNCHANGED <<chainVars, detect, label, storeVars, provider>>

\* const t = chain.createTranslation(locale)
CreateTranslation(locale) ==
  /\ server # NoServer
  /\ Len(server.fns) < MaxFunctions
  /\ server' = [server EXCEPT
                  !.fns = Append(@, [locale |-> locale,
                                     cfg |-> createTranslation(server.opts, locale)]),
                  !.last = [op |-> "createTranslation", locale |-> locale]]
  /\ UNCHANGED <<chainVars, detect, label, storeVars, provider>>

\* String(t('hello').no('hei')) with the i-th function created
ServerChain(i) ==
  /\ server # NoServer
  /\ i \in 1..Len(server.fns)
  /\ server' = [server EXCEPT
                  !.last = [op |-> "chain", fn |-> i, text |-> serverRender(server.fns[i].cfg)]]
  /\ UNCHANGED <<chainVars, detect, label, storeVars, provider>>

\* String(chain.labels.status(key))
ServerLabel(key) ==
  /\ server # NoServer
  /\ server.labels.made
  /\ LET v == lookup(StatusEnum.props, server.labels.labels.status, Str(key))
     IN server' = [server EXCEPT
                     !.last = [op |-> "label", key |-> key,
                               text |-> IF v.type = "object"
                                        THEN toString(server.labels.cfg, v.translations)
                                        ELSE v]]
  /\ UNCHANGED <<chainVars, detect, label, storeVars, provider>>

NextServer ==
  \/ \E opts \in ServerOptions : InitializeServer(opts)
  \/ \E locale \in LocaleNames : CreateTranslation(locale)
  \/ \E i \in 1..MaxFunctions : ServerChain(i)
  \/ \E key \in StatusEnum.declared : ServerLabel(key)

SpecServer == InitServer /\ [][NextServer]_vars

(***************************************************************************)
(* TranslationProvider: the store behind a React context                   *)
(***************************************************************************)

\* the stores a provider is mounted over: collaborators that return
ProviderOptions ==
  {Options(s, d, o) :
     s \in SupportedChoices, d \in {<<>>, <<Str("no")>>}, o \in OptionalChoices}

\* the context keeps the t and labels of the first render
contextValueAtMount(translationStore, locale, mounted) ==
  IF mounted = NoProvider
  THEN [locale |-> locale, t |-> translationStore.t, labels |-> translationStore.labels]
  ELSE [locale |-> locale, t |-> mounted.context.t, labels |-> mounted.context.labels]

\* the value of TranslationContext.Provider as a render computes it
contextValue(translationStore, locale, mounted) ==
  [locale |-> locale, t |-> translationStore.t, labels |-> translationStore.labels]

\* setLocale(newLocale) of useState: a state equal to the current one
\* schedules no render
schedulesRender(locale, newLocale) == locale # newLocale

InitProvider ==
  /\ store = NoStore
  /\ run = NoStore
  /\ env \in {[isBrowser |-> TRUE, items |-> i, stores |-> 0] : i \in InitialItems}
               \cup {[isBrowser |-> FALSE, items |-> NoItems, stores |-> 0]}
  /\ ChainAtRest
  /\ detect = NoDetect
  /\ label = NoLabel
  /\ ServerAtRest

\* the instance the provider is given
InitializeInstance(opts) ==
  /\ store = NoStore
  /\ Initialize(opts)

\* <TranslationProvider instance={instance}>: the first render
Mount ==
  /\ store # NoStore
  /\ run.pc = "idle"
  /\ provider = NoProvider
  /\ provider' = [pc |-> "mounted", locale |-> store.locale, next |-> store.locale,
                  pending |-> FALSE, renders |-> 1, sameLocaleRequests |-> 0,
                  context |-> contextValue(store, store.locale, NoProvider)]
  /\ UNCHANGED <<chainVars, detect, label, storeVars, server>>

\* changeLocale of the context: setLocale(newLocale), then
\* instance.translationStore.changeLocale(newLocale)
ProviderChangeLocale(newLocale) ==
  /\ provider # NoProvider
  /\ ~provider.pending
  /\ Begin(newLocale)
  /\ provider' = [provider EXCEPT
                    !.next = newLocale,
                    !.pending = schedulesRender(provider.locale, newLocale),
                    !.sameLocaleRequests =
                      IF schedulesRender(provider.locale, newLocale) THEN @ ELSE @ + 1]
  /\ UNCHANGED <<store, env, chainVars, detect, label, server>>

\* the render React runs for the new state once the handler has returned
Render ==
  /\ provider # NoProvider
  /\ provider.pending
  /\ run.pc = "idle"
  /\ provider' = [provider EXCEPT
                    !.locale = provider.next,
                    !.pending = FALSE,
                    !.renders = @ + 1,
                    !.context = contextValue(store, provider.next, provider)]
  /\ UNCHANGED <<chainVars, detect, label, storeVars, server>>

NextProvider ==
  \/ \E opts \in ProviderOptions : InitializeInstance(opts)
  \/ Mount
  \/ \E newLocale \in LocaleNames : ProviderChangeLocale(newLocale)
  \/ SetLocale
  \/ CreateT
  \/ CreateLabels
  \/ Callback
  \/ SetItem
  \/ Render

SpecProvider == InitProvider /\ [][NextProvider]_vars

(***************************************************************************)
(* Properties                                                              *)
(***************************************************************************)

\* the slots that hold a chain
ChainSlots == {s \in {recv, ret} : s.val.type = "object"}

\* resolution as the specification words it: the text of locale c if the
\* mapping has an entry for it, else the text of the base locale
Resolved(m, c) == IF c \in DOMAIN m THEN m[c] ELSE m[config.baseLocale]

\* the mapping a history stands for: the seed under the base locale, then per
\* locale the last text attached
HistMapping(h) ==
  [k \in {config.baseLocale} \cup DOMAIN h.attached |->
     Str(IF k \in DOMAIN h.attached THEN h.attached[k] ELSE h.seed)]

Complete(m) == Range(config.supportedLocales) \subseteq DOMAIN m

C2_BaseEntryPresent ==
  /\ \A s \in ChainSlots :
       /\ config.baseLocale \in DOMAIN s.val.translations
       /\ s.val.translations[config.baseLocale].type = "string"
       /\ toString(config, s.val.translations).type = "string"
  /\ call.op = "convert" => ret.val.type = "string"

\* the base accessor was called with null and the chain it returned still
\* carries the base text
C2_Witness ==
  /\ call.op = "accessor" /\ call.prop = config.baseLocale /\ call.text = null
  /\ ret.val.type = "object"
  /\ ret.val.translations[config.baseLocale] = Str(ret.hist.seed)

\* C3: an accessor call leaves the mapping of the chain it is called on as it
\* was and returns another value; every chain carries exactly what was
\* attached on its own branch, whatever was attached on other branches of
\* the chains it was derived from.
C3_ReceiverUnchanged ==
  [][/\ (call'.op = "accessor" /\ From(call'.from).val.type = "object")
          => /\ recv'.val = From(call'.from).val
             /\ recv'.hist = From(call'.from).hist
     /\ \A s \in ChainSlots' : s.val.translations = HistMapping(s.hist)]_vars

\* a chain already used as a receiver is extended a second time and the
\* result differs from it
C3_Witness ==
  /\ call.op = "accessor" /\ call.from = "recv"
  /\ recv.val.type = "object" /\ ret.val.type = "object"
  /\ recv.origin = "accessor"
  /\ DOMAIN ret.val.translations # DOMAIN recv.val.translations

\* C4: for a chain c and a non-base locale L, c.L(null) and c.L(undefined)
\* return a chain with c's mapping: no entry for L is created, it resolves as
\* c does under every current locale, and to the base text when L is the
\* current locale and had no entry.
C4_NullIsNoOp ==
  (/\ call.op = "accessor"
   /\ recv.val.type = "object"
   /\ call.prop # config.baseLocale
   /\ call.text \in {null, undefined})
    => /\ ret.val.type = "object"
       /\ ret.val.translations = recv.val.translations
       /\ \A c \in LocaleNames :
            toString([config EXCEPT !.currentLocale = c], ret.val.translations)
              = toString([config EXCEPT !.currentLocale = c], recv.val.translations)
       /\ (call.prop \notin DOMAIN recv.val.translations /\ config.currentLocale = call.prop)
            => toString(config, ret.val.translations) = recv.val.translations[config.baseLocale]

\* the current locale's accessor was called with undefined on a chain that
\* has no entry for it
C4_Witness ==
  /\ call.op = "accessor" /\ call.text = undefined
  /\ call.prop # config.baseLocale /\ call.prop = config.currentLocale
  /\ recv.val.type = "object" /\ ret.val.type = "object"
  /\ call.prop \notin DOMAIN ret.val.translations

\* C5 as stated: without early collapse, a chain seeded with b resolves under
\* current locale L to the last text attached for L if any and to b otherwise.
C5_AsStated ==
  ~Truthy(config.returnPrimitive)
    => \A s \in ChainSlots :
         toString(config, s.val.translations)
           = Str(IF config.currentLocale \in DOMAIN s.hist.attached
                 THEN s.hist.attached[config.currentLocale]
                 ELSE s.hist.seed)

\* C5: without early collapse, a chain seeded with b resolves under current
\* locale L to the last text attached for L if any, and otherwise to the base
\* locale's text, which is the last text attached for the base locale if its
\* accessor was called and b if not; a second text for a locale replaces the
\* first, and attaching two distinct locales in either order gives the same
\* mapping.
C5_LastAttachedWins ==
  ~Truthy(config.returnPrimitive)
    => /\ \A s \in ChainSlots :
            toString(config, s.val.translations)
              = Str(IF config.currentLocale \in DOMAIN s.hist.attached
                    THEN s.hist.attached[config.currentLocale]
                    ELSE IF config.baseLocale \in DOMAIN s.hist.attached
                         THEN s.hist.attached[config.baseLocale]
                         ELSE s.hist.seed)
       /\ (call.op = "accessor" /\ call.text.type = "string" /\ ret.val.type = "object")
            => ret.val.translations[call.prop] = call.text
       /\ \A s \in ChainSlots : \A l1, l2 \in LocaleNames : \A x, y \in Texts :
            l1 # l2 =>
              accessor(config, accessor(config, s.val.translations, l1, Str(x)).translations, l2, Str(y))
                = accessor(config, accessor(config, s.val.translations, l2, Str(y)).translations, l1, Str(x))

\* the current locale already had a text and its accessor was called with
\* another one, which the result resolves to
C5_Witness ==
  /\ ~Truthy(config.returnPrimitive)
  /\ call.op = "accessor" /\ call.text.type = "string"
  /\ call.prop = config.currentLocale /\ call.prop # config.baseLocale
  /\ recv.val.type = "object"
  /\ call.prop \in DOMAIN recv.val.translations
  /\ recv.val.translations[call.prop] # call.text
  /\ toString(config, ret.val.translations) = call.text

\* C6: with returnPrimitive, an accessor call whose resulting mapping has an
\* entry for every supported locale returns the primitive string
\* mapping[currentLocale] if present, else mapping[baseLocale].
C6_CollapseReturnsResolved ==
  (/\ call.op = "accessor"
   /\ Truthy(config.returnPrimitive)
   /\ recv.val.type = "object"
   /\ Complete(HistMapping(ret.hist)))
    => /\ ret.val.type = "string"
       /\ ret.val = Resolved(HistMapping(ret.hist), config.currentLocale)

\* the completing call attached the current locale's text and returned it as
\* a primitive
C6_Witness ==
  /\ call.op = "accessor" /\ Truthy(config.returnPrimitive)
  /\ recv.val.type = "object"
  /\ call.prop = config.currentLocale /\ call.prop # config.baseLocale
  /\ call.text.type = "string"
  /\ ret.val = call.text

\* C7: with returnPrimitive, once an accessor call has completed the mapping,
\* a locale accessor invoked on the value it returned throws (the host's
\* TypeError for calling a property a string does not have) and returns no
\* chain.
C7_AccessorOnCollapsedThrows ==
  [][(/\ Truthy(config.returnPrimitive)
      /\ call.op = "accessor"
      /\ ret.origin = "accessor"
      /\ Complete(HistMapping(ret.hist))
      /\ call'.op = "accessor"
      /\ call'.from = "ret")
       => /\ ret'.val = Throw("TypeError")
          /\ recv' = ret
          /\ recv'.val.type = "string"]_vars

\* an accessor was invoked on a collapsed string and threw
C7_Witness ==
  /\ Truthy(config.returnPrimitive)
  /\ call.op = "accessor"
  /\ recv.origin = "accessor" /\ recv.val.type = "string"
  /\ ret.val = Throw("TypeError")

\* C8 as stated: the base-locale accessor invoked with a null or omitted text
\* throws InvalidArgument and returns no chain.
C8_BaseAccessorRejectsNull ==
  (/\ call.op = "accessor"
   /\ recv.val.type = "object"
   /\ call.prop = config.baseLocale
   /\ call.text \in {null, undefined})
    => ret.val.type = "throw"

\* C9 as stated: every key of a reachable chain's mapping is a configured
\* supported locale.
C9_KeysAreSupported ==
  \A s \in ChainSlots : DOMAIN s.val.translations \subseteq Range(config.supportedLocales)

\* C10: toString, valueOf and the to-primitive hook of a chain all return the
\* resolved text for the chain's current locale.
C10_ConversionsAgree ==
  /\ call.op = "convert"
       => ret.val = Resolved(recv.val.translations, config.currentLocale)
  /\ \A s \in ChainSlots : \A p \in ConversionPaths :
       Convert(p, config, s.val.translations)
         = Resolved(HistMapping(s.hist), config.currentLocale)

\* valueOf was called on a chain whose current locale has its own text
C10_Witness ==
  /\ call.op = "convert" /\ call.path = "valueOf"
  /\ config.currentLocale # config.baseLocale
  /\ config.currentLocale \in DOMAIN recv.val.translations
  /\ ret.val = recv.val.translations[config.currentLocale]
  /\ ret.val # recv.val.translations[config.baseLocale]

\* the detectors that return a supported locale
Matching == {i \in 1..Len(detect.detectors) :
               \E l \in Range(detect.supportedLocales) : detect.detectors[i] = Str(l)}

\* C11: detectLocale invokes the detectors in list order and returns the value
\* of the first one whose result is non-null and supported; the detectors
\* after it are not invoked, so an earlier supported value wins over a later
\* one.
C11_FirstMatchWins ==
  (detect.pc = "returned" /\ Matching # {})
    => \E i \in Matching :
         /\ \A j \in Matching : i <= j
         /\ Str(detect.result) = detect.detectors[i]
         /\ detect.invoked = i

\* two detectors return different supported locales, after one that returns
\* none, and the earlier of the two is returned
C11_Witness ==
  /\ detect.pc = "returned"
  /\ Len(detect.detectors) = 3
  /\ 1 \notin Matching
  /\ {2, 3} \subseteq Matching
  /\ detect.detectors[2] # detect.detectors[3]
  /\ Str(detect.result) = detect.detectors[2]
  /\ detect.invoked = 2

\* C12 as stated: detectLocale returns baseLocale exactly when no detector
\* returns a supported locale.
C12_AsStated ==
  detect.pc = "returned"
    => (detect.result = detect.fallbackLocale <=> Matching = {})

\* C12: detectLocale returns baseLocale when no detector returns a supported
\* locale (the empty list included), after consulting every detector: a null
\* or unsupported value is skipped without error; when some detector returns
\* a supported locale the result is baseLocale only if that is the value of
\* the first such detector.
C12_FallbackToBase ==
  detect.pc = "returned"
    => /\ Matching = {} => /\ detect.result = detect.fallbackLocale
                           /\ detect.invoked = Len(detect.detectors)
       /\ (Matching # {} /\ detect.result = detect.fallbackLocale)
            => \E i \in Matching : /\ \A j \in Matching : i <= j
                                   /\ detect.detectors[i] = Str(detect.fallbackLocale)
       /\ \A i \in 1..(detect.invoked - 1) : i \notin Matching

\* a null and an unsupported value were both skipped and the base locale
\* returned
C12_Witness ==
  /\ detect.pc = "returned"
  /\ Len(detect.detectors) = 2
  /\ detect.detectors[1] = null
  /\ detect.detectors[2] = Str("pl")
  /\ "pl" \notin Range(detect.supportedLocales)
  /\ detect.result = detect.fallbackLocale
  /\ detect.invoked = 2

\* the key names and the underlying values of the enum object a label is for
LabelKeys == {Str(label.enum.props[i].key) : i \in 1..Len(label.enum.props)}

LabelValues == {label.enum.props[i].value : i \in 1..Len(label.enum.props)}

\* C18: for an input that is neither a key name of the domain nor the
\* underlying value of a key, the lookup returns String(x) and does not throw.
C18_UnmatchedFallsBack ==
  (label.pc = "looked" /\ label.value \notin LabelKeys \cup LabelValues)
    => /\ label.result.type = "string"
       /\ label.value.type = "string" => label.result = label.value
       /\ label.value = Num(7) => label.result = Str("7")

\* the number 7, which no enum has as a key or a value, was looked up and
\* came back as the string "7"
C18_Witness ==
  /\ label.pc = "looked"
  /\ label.value = Num(7)
  /\ label.value \notin LabelKeys \cup LabelValues
  /\ label.result = Str("7")

\* C19 as stated: with a translation for every key, lookup(k) and
\* lookup(domain[k]) both return the chain of key k, for every declared key k,
\* also when the value of one key is the name of another.
C19_KeyAndValueFindTheChain ==
  (label.pc = "looked" /\ DOMAIN label.translations = label.enum.declared)
    => \A i \in 1..Len(label.enum.props) :
         LET k == label.enum.props[i].key
         IN (k \in label.enum.declared
             /\ (label.value = Str(k) \/ label.value = label.enum.props[i].value))
              => label.result = label.translations[k]

\* C20 as stated: createLabel with a translations argument that omits a key of
\* the domain throws at construction and returns no lookup function.
C20_MissingKeyRejected ==
  (label.pc \in {"created", "looked"} /\ DOMAIN label.translations # label.enum.declared)
    => label.created = "MissingTranslation"

\* what a chain or a collapsed string shows when it is rendered
StoreText(cfg, v) == IF v.type = "object" THEN toString(cfg, v.translations) ELSE v

\* the rendering of t("hello").no("hei") made with the translation function t
TChainText(t) ==
  StoreText(t.cfg, accessor(t.cfg, createTranslationFunction(t.cfg, Str("hello")).translations,
                            "no", Str("hei")))

\* the rendering of labels.status(k)
LabelText(labels, k) ==
  StoreText(labels.cfg, lookup(StatusEnum.props, labels.labels.status, Str(k)))

\* the text of locale L, the base text when L has no entry
ExpectedText(texts, L) == Str(IF L \in DOMAIN texts THEN texts[L] ELSE texts.en)

HelloTexts == [en |-> "hello", no |-> "hei"]

\* C13: when onLocaleChange runs for changeLocale(L), its first argument is L,
\* store.locale is L, its second argument is the store's t and was created by
\* this call, chains of that t render for L, and the store's labels render
\* for L.
C13_CallbackSeesSwitchedStore ==
  (store # NoStore /\ run.observed.seen)
    => LET o == run.observed
       IN /\ o.storeLocale = o.locale
          /\ o.t = o.storeT
          /\ o.t.id > o.tAtCall
          /\ TChainText(o.t) = ExpectedText(HelloTexts, o.locale)
          /\ o.storeLabels.made
               => \A k \in StatusEnum.declared :
                    LabelText(o.storeLabels, k) = ExpectedText(LabelTexts[k], o.locale)

\* a callback of an explicit change to "no" on a store with labels that
\* started in another locale
C13_Witness ==
  /\ store # NoStore
  /\ run.observed.seen
  /\ run.changes >= 1
  /\ run.observed.locale = "no"
  /\ run.initialLocale # "no"
  /\ run.observed.storeLabels.made
  /\ LabelText(run.observed.storeLabels, "Active") = Str("Aktiv")

\* C14: construction performs one implicit changeLocale, so once construction
\* has returned the callback and storage.setItem have each run once; every
\* later changeLocale, also one to the current locale or one made by the
\* subscriber, calls the callback once more: after n calls the count is
\* n + 1, and so is the count of storage.setItem as long as nothing threw.
C14_OneCallbackPerChange ==
  store # NoStore
    => /\ run.pc = "idle"
            => /\ store.opts.onLocaleChange => run.callbacks = run.changes + 1
               /\ (store.opts.storage /\ run.changes = 0) => run.setItems = 1
               /\ (store.opts.storage /\ ~run.threw) => run.setItems = run.changes + 1
       /\ run.callbacks <= run.changes + 1
       /\ run.setItems <= run.changes + 1

\* one explicit changeLocale to the locale the store already had, completed
C14_Witness ==
  /\ store # NoStore
  /\ run.pc = "idle"
  /\ run.changes = 1
  /\ run.newLocale = run.initialLocale
  /\ store.opts.onLocaleChange
  /\ store.opts.storage
  /\ run.callbacks = 2
  /\ run.setItems = 2

\* C15: on a store with a storage adapter whose collaborators have not
\* thrown, whenever no changeLocale is in progress the adapter's value under
\* "locale" equals store.locale.
C15_AsStated ==
  (store # NoStore /\ run.pc = "idle" /\ store.opts.storage /\ ~run.threw)
    => getItem(env.isBrowser, env.items, "locale") = Str(store.locale)

\* C15, amended: the same where window.localStorage is there for the adapter
\* to write to and the subscriber has not called changeLocale itself.
C15_PersistedEqualsCurrent ==
  (/\ store # NoStore
   /\ run.pc = "idle"
   /\ store.opts.storage
   /\ ~run.threw
   /\ ~run.reentered
   /\ env.isBrowser)
    => getItem(env.isBrowser, env.items, "locale") = Str(store.locale)

\* an explicit change to "pl" completed in a browser, on a store with a
\* storage adapter that started in another locale
C15_Witness ==
  /\ store # NoStore
  /\ run.pc = "idle"
  /\ store.opts.storage
  /\ env.isBrowser
  /\ run.changes >= 1
  /\ run.initialLocale # "pl"
  /\ store.locale = "pl"
  /\ env.items.locale = Str("pl")

\* the new store comes after a store with a storage adapter whose last
\* completed changeLocale was for a locale the new store supports, and has
\* the storage detector first
RoundTrip ==
  /\ store # NoStore
  /\ run.previous.exists
  /\ run.previous.storage
  /\ Includes(store.opts.supportedLocales, Str(run.previous.locale))
  /\ Len(store.opts.detectors) >= 1
  /\ store.opts.detectors[1] = LocalStorageDetector

\* C16: a store initialized after a store with a storage adapter that last
\* completed changeLocale(L), L supported, over the same storage and with the
\* storage detector first, starts with locale L.
C16_AsStated == RoundTrip => run.initialLocale = run.previous.locale

\* C16, amended: the same where window.localStorage is there for the adapter
\* and the detector.
C16_RoundTrip == (RoundTrip /\ env.isBrowser) => run.initialLocale = run.previous.locale

\* a second store in a browser, with the storage detector alone, that starts
\* with "no", the locale the first store was left in
C16_Witness ==
  /\ RoundTrip
  /\ env.isBrowser
  /\ run.previous.locale = "no"
  /\ run.initialLocale = "no"
  /\ store.locale = "no"
  /\ run.changes = 0
  /\ Len(store.opts.detectors) = 1

\* C17: whenever no changeLocale is in progress, a chain made with store.t
\* renders the text of store.locale, and every lookup of store.labels
\* renders the text of store.locale; the base text where store.locale has
\* no entry.
C17_DerivedStateFollowsLocale ==
  (store # NoStore /\ run.pc = "idle")
    => /\ store.t.cfg.currentLocale = store.locale
       /\ TChainText(store.t) = ExpectedText(HelloTexts, store.locale)
       /\ store.labels.made
            => \A k \in StatusEnum.declared :
                 LabelText(store.labels, k) = ExpectedText(LabelTexts[k], store.locale)

\* a store with labels that started in "en" and was changed to "no"
C17_Witness ==
  /\ store # NoStore
  /\ run.pc = "idle"
  /\ run.changes >= 1
  /\ run.initialLocale = "en"
  /\ store.locale = "no"
  /\ store.labels.made
  /\ TChainText(store.t) = Str("hei")
  /\ LabelText(store.labels, "Inactive") = Str("Inaktiv")

\* the slots that hold a value a chain-building call returned
BuiltSlots == {s \in {recv, ret} : s.origin \in {"seed", "accessor"}}

\* C28: with returnPrimitive, a value returned by the seed call or by an
\* accessor call is a primitive string exactly when an accessor call returned
\* it and the mapping that call built has an entry for every supported
\* locale; an accessor call with null or undefined for a locale that has no
\* entry returns a chain object.
C28_PrimitiveIffComplete ==
  Truthy(config.returnPrimitive)
    => /\ \A s \in BuiltSlots :
            s.val.type = "string" <=> (s.origin = "accessor" /\ Complete(HistMapping(s.hist)))
       /\ \A s \in BuiltSlots : s.val.type \in {"string", "object"}
       /\ (/\ call.op = "accessor"
           /\ recv.val.type = "object"
           /\ call.text \in {null, undefined}
           /\ call.prop \notin DOMAIN recv.val.translations)
            => ret.val.type = "object"

\* with three supported locales, the second locale was attached and the
\* third was called with null: the value returned is still a chain
C28_Witness ==
  /\ Truthy(config.returnPrimitive)
  /\ Len(config.supportedLocales) = 3
  /\ call.op = "accessor" /\ call.text = null /\ call.prop = "pl"
  /\ recv.val.type = "object"
  /\ "no" \in DOMAIN recv.val.translations
  /\ ret.val.type = "object"
  /\ ~Complete(HistMapping(ret.hist))

\* a call of initializeTranslations or changeLocale has ended with an
\* exception
Thrown == run.pc \in {"idle", "failed"} /\ run.raised # NoValue

\* C21: what a detector throws during initialization, or onLocaleChange or
\* storage.setItem during changeLocale, is what the caller of
\* initializeTranslations or changeLocale gets, as thrown; the collaborator
\* that threw was not called again, and a failed initialization returns no
\* store.
C21_ExceptionsPropagate ==
  Thrown
    => /\ run.outcome = run.raised
       /\ run.pc = "failed" <=> run.implicit
       /\ run.raisedBy = "detector"
            => /\ run.outcome = DetectorError
               /\ store = NoStore
               /\ run.detectorCalls = FirstThrowing(run.opts.detectors)
               /\ run.callbacks = 0
       /\ run.raisedBy = "onLocaleChange"
            => /\ run.outcome = SubscriberError
               /\ run.callbacks = run.changes + 1
       /\ run.raisedBy = "setItem"
            => /\ run.outcome = StorageError
               /\ run.setItems <= run.changes + 1
               /\ run.callbacks = run.changes + 1

\* an explicit changeLocale ended with the subscriber's exception
C21_Witness ==
  /\ Thrown
  /\ store # NoStore
  /\ run.pc = "idle"
  /\ run.changes = 2
  /\ run.raisedBy = "onLocaleChange"
  /\ run.outcome = SubscriberError

\* C24 as stated: after construction and n changeLocale calls the label
\* factory has been invoked n + 1 times.
C24_AsStated ==
  (store # NoStore /\ run.pc = "idle" /\ store.opts.labels)
    => run.labelCalls = run.changes + 1

\* C24, amended: the factory is invoked once when the store object is built,
\* once by the implicit changeLocale and once by every later changeLocale:
\* n + 2 times after construction and n calls.
C24_FactoryCalls ==
  (store # NoStore /\ run.pc = "idle" /\ store.opts.labels)
    => run.labelCalls = run.changes + 2

\* construction and two changeLocale calls: four invocations of the factory
C24_Witness ==
  /\ store # NoStore
  /\ run.pc = "idle"
  /\ store.opts.labels
  /\ run.changes = 2
  /\ run.labelCalls = 4

\* C25: the only call the store makes on the storage adapter is setItem with
\* the key "locale"; other keys of the storage keep their values; without a
\* storage adapter nothing is stored, and changeLocale still switches
\* locale, t and labels and calls the subscriber.
C25_OnlyLocaleKeyWritten ==
  store # NoStore
    => /\ run.adapterCalls \subseteq {[op |-> "setItem", key |-> "locale"]}
       /\ env.items.theme = run.itemsAtStart.theme
       /\ ~store.opts.storage
            => /\ run.adapterCalls = {}
               /\ run.setItems = 0
               /\ env.items = run.itemsAtStart
               /\ run.pc = "idle"
                    => /\ store.locale = run.newLocale
                       /\ TChainText(store.t) = ExpectedText(HelloTexts, run.newLocale)
                       /\ store.labels.made
                            => LabelText(store.labels, "Active")
                                 = ExpectedText(LabelTexts["Active"], run.newLocale)
                       /\ store.opts.onLocaleChange
                            => /\ run.callbacks = run.changes + 1
                               /\ run.observed.locale = run.newLocale

\* without a storage adapter, a changeLocale("no") on a store that started
\* in another locale has completed in a browser whose localStorage held "pl"
C25_Witness ==
  /\ store # NoStore
  /\ ~store.opts.storage
  /\ env.isBrowser
  /\ run.pc = "idle"
  /\ run.changes >= 1
  /\ run.initialLocale # "no"
  /\ store.locale = "no"
  /\ run.observed.seen
  /\ run.observed.locale = "no"
  /\ env.items.locale = Str("pl")

\* what the detectors of the store would return if they were asked now
DetectedNow ==
  detectLocale(store.opts.supportedLocales, store.opts.baseLocale,
               DetectorResults(store.opts.detectors, env.isBrowser, env.items)).locale

\* C26: while a store lives, no step of changeLocale invokes a detector, and
\* store.locale changes only in the first statement of changeLocale, to the
\* argument of the call, whatever the detectors would return.
C26_DetectorsOnlyAtInit ==
  [][(store # NoStore /\ store' # NoStore /\ env'.stores = env.stores)
       => /\ run'.detectorCalls = run.detectorCalls
          /\ store'.locale # store.locale => run.pc = "setLocale"
          /\ run.pc = "setLocale" => store'.locale = run.newLocale]_vars

\* after changeLocale("en") the store is in "en" while its detectors would
\* return "no"
C26_Witness ==
  /\ store # NoStore
  /\ run.pc = "idle"
  /\ run.changes >= 1
  /\ run.initialLocale = "no"
  /\ store.locale = "en"
  /\ ThrowingDetector \notin Range(store.opts.detectors)
  /\ DetectedNow = "no"

\* an explicit changeLocale has ended with the subscriber's exception
SubscriberThrew ==
  /\ Thrown
  /\ store # NoStore
  /\ run.pc = "idle"
  /\ run.raisedBy = "onLocaleChange"

\* the store is bound to L although changeLocale(L) threw, and the call has
\* stored nothing
NotRolledBack ==
  /\ store.locale = run.newLocale
  /\ store.t.cfg.currentLocale = run.newLocale
  /\ TChainText(store.t) = ExpectedText(HelloTexts, run.newLocale)
  /\ store.labels.made
       => \A k \in StatusEnum.declared :
            LabelText(store.labels, k) = ExpectedText(LabelTexts[k], run.newLocale)
  /\ run.setItems = run.setItemsAtCall
  /\ env.items = run.itemsAtCall

\* C29 as stated: when onLocaleChange throws during changeLocale(L), locale,
\* t and labels are bound to L, setItem is not called, and the persisted
\* locale keeps its value and differs from store.locale.
C29_AsStated ==
  SubscriberThrew
    => /\ NotRolledBack
       /\ getItem(env.isBrowser, env.items, "locale") # Str(store.locale)

\* C29, amended: the same, and the persisted locale differs from
\* store.locale unless L was the persisted locale before the call.
C29_NoRollback ==
  SubscriberThrew
    => /\ NotRolledBack
       /\ getItem(env.isBrowser, env.items, "locale") = Str(store.locale)
            <=> getItem(env.isBrowser, run.itemsAtCall, "locale") = Str(run.newLocale)

\* changeLocale("pl") threw in the subscriber on a store whose storage holds
\* "en": the store is in "pl", the storage still holds "en"
C29_Witness ==
  /\ SubscriberThrew
  /\ env.isBrowser
  /\ run.newLocale = "pl"
  /\ store.locale = "pl"
  /\ env.items.locale = Str("en")

\* a changeLocale(A) whose subscriber called changeLocale(B) has returned,
\* and the subscriber did not call changeLocale again while handling B
ReenteredCallOver ==
  /\ store # NoStore
  /\ run.pc = "idle"
  /\ run.reentries = 1

\* C30: when a changeLocale(A) returns whose subscriber called
\* changeLocale(B), B other than A, and no further changeLocale, then
\* locale, t and labels of the store are bound to B and the last value
\* written to storage under "locale" is A.
C30_OuterWriteComesLast ==
  ReenteredCallOver
    => /\ run.inner # run.outer
       /\ store.locale = run.inner
       /\ store.t.cfg.currentLocale = run.inner
       /\ TChainText(store.t) = ExpectedText(HelloTexts, run.inner)
       /\ store.labels.made
            => \A k \in StatusEnum.declared :
                 LabelText(store.labels, k) = ExpectedText(LabelTexts[k], run.inner)
       /\ run.lastWritten = run.outer
       /\ [op |-> "setItem", key |-> "locale"] \in run.adapterCalls
       /\ env.isBrowser => env.items.locale = Str(run.outer)

\* changeLocale("no") whose subscriber called changeLocale("en") has
\* returned: the store is in "en", the storage holds "no"
C30_Witness ==
  /\ ReenteredCallOver
  /\ env.isBrowser
  /\ run.outer = "no"
  /\ run.inner = "en"
  /\ store.locale = "en"
  /\ env.items.locale = Str("no")
  /\ store.labels.made

\* C22 as stated: a chain made with the store's t, also one made before a
\* later changeLocale, renders the text of the store's current locale
\* whenever it is stringified.
C22_AsStated ==
  (store # NoStore /\ run.pc = "idle")
    => /\ TChainText(store.t) = ExpectedText(HelloTexts, store.locale)
       /\ run.held # NoValue => TChainText(run.held) = ExpectedText(HelloTexts, store.locale)

\* C22, amended: a chain made with the store's t renders the text of the
\* locale the store had when the chain was made: the current locale for a
\* chain of the current t, the earlier locale for a chain kept across a
\* changeLocale.
C22_ResolvesAgainstLocaleAtCreation ==
  (store # NoStore /\ run.pc = "idle")
    => /\ TChainText(store.t) = ExpectedText(HelloTexts, store.locale)
       /\ run.held # NoValue => TChainText(run.held) = ExpectedText(HelloTexts, run.heldLocale)

\* a chain made while the store was in "en" still renders "hello" after
\* changeLocale("no"), while a chain of the current t renders "hei"
C22_Witness ==
  /\ store # NoStore
  /\ run.pc = "idle"
  /\ run.held # NoValue
  /\ run.heldLocale = "en"
  /\ store.locale = "no"
  /\ TChainText(run.held) = Str("hello")
  /\ TChainText(store.t) = Str("hei")

\* C23: on a server instance every chain renders the text of the locale its
\* translation function was created with, whatever other functions were
\* created before or after, and the labels of the instance render the base
\* text.
C23_ServerFunctionsAreIndependent ==
  server # NoServer
    => /\ \A i \in 1..Len(server.fns) :
            serverRender(server.fns[i].cfg) = ExpectedText(HelloTexts, server.fns[i].locale)
       /\ server.last.op = "chain"
            => server.last.text = ExpectedText(HelloTexts, server.fns[server.last.fn].locale)
       /\ server.labels.made
            => \A k \in StatusEnum.declared :
                 LabelText(server.labels, k) = Str(LabelTexts[k].en)
       /\ server.last.op = "label" => server.last.text = Str(LabelTexts[server.last.key].en)

\* the function created for "no" renders "hei" after a function for "en"
\* was created after it, on an instance with labels
C23_Witness ==
  /\ server # NoServer
  /\ server.labels.made
  /\ Len(server.fns) = 2
  /\ server.fns[1].locale = "no"
  /\ server.fns[2].locale = "en"
  /\ server.last.op = "chain"
  /\ server.last.fn = 1
  /\ server.last.text = Str("hei")

\* a provider is mounted, no changeLocale is in progress and no render is
\* due
Settled ==
  /\ provider # NoProvider
  /\ store # NoStore
  /\ run.pc = "idle"
  /\ ~provider.pending

\* C27: once the requests made through the provider's changeLocale are
\* rendered, the locale of the context is the store's locale, and the t and
\* labels of the context are bound to that locale and render as the store's
\* do; they are the very function and labels the store holds, except that
\* after a request for the locale already shown, which schedules no render,
\* the context keeps the function of the last render, bound to the same
\* locale.
C27_ContextFollowsStore ==
  Settled
    => /\ provider.context.locale = store.locale
       /\ provider.context.t.cfg = store.t.cfg
       /\ provider.context.t.cfg.currentLocale = store.locale
       /\ TChainText(provider.context.t) = ExpectedText(HelloTexts, store.locale)
       /\ provider.context.labels = store.labels
       /\ provider.context.labels.made
            => \A k \in StatusEnum.declared :
                 LabelText(provider.context.labels, k)
                   = ExpectedText(LabelTexts[k], store.locale)
       /\ provider.sameLocaleRequests = 0 => provider.context.t = store.t

\* two requests through the provider, to "no" and then to "pl", both
\* rendered, on a store with labels that started in "en"
C27_Witness ==
  /\ Settled
  /\ run.changes = 2
  /\ run.initialLocale = "en"
  /\ provider.renders = 3
  /\ provider.context.locale = "pl"
  /\ store.locale = "pl"
  /\ provider.context.t = store.t
  /\ provider.context.labels.made

====
